---- MODULE Spec2Model ----
(***************************************************************************)
(* Model of the EUR-Lex harvester of eu_legal_analyzer:                    *)
(*   src/src/scraper/directory_scraper.py  (EURLexDirectoryScraper)        *)
(*   src/src/database/db_manager.py        (DatabaseManager)               *)
(*   src/scripts/scrape_eurlex.py          (the scrape command)            *)
(*                                                                         *)
(* One control flow (the main thread) runs the four strategies, paginates  *)
(* the listing of each query and collects the results of the detail tasks; *)
(* a thread pool of max_workers threads runs _get_detailed_act_info.  The  *)
(* outside world (listing pages, detail pages, transport and database      *)
(* failures, SIGINT) is a nondeterministic choice in the actions.          *)
(***************************************************************************)
EXTENDS Integers, Sequences, FiniteSets, Bags, TLC

\* ---------------------------------------------------------------- bounds
\* Number of distinct identifiers the outside world can show in one run.
NumIds == 2
\* Largest number of result items on one listing page.
MaxItems == 2
\* Largest --max-acts; the runs take the multiples of 5 up to it.
MaxActs == 10
\* Largest --workers.
MaxWorkers == 2
\* Number of identifiers the store can hold before the run starts.
MaxSeeded == 1
\* Number of distinct identifiers in the runs that exhaust the budget.
NumBudgetIds == 5
\* Number of save_legal_act calls in the store specification.
MaxCalls == 3
\* Number of distinct content values in the store specification.
NumContents == 2

\* ------------------------------------------------------ program constants
\* document_types, years, subjects: the queries of the three search strategies.
NumDocumentTypes == 10
NumYears == 10
NumSubjects == 20
\* scrape_comprehensive_legal_acts divides max_acts by this.
NumStrategies == 4

NumSearchQueries == NumDocumentTypes + NumYears + NumSubjects
\* The recent-listing feed is the last query of the run.
RecentQuery == NumSearchQueries + 1

\* Python's None / SQL NULL, for a text field and for an identifier.
None == "None"
NoCelex == 0
\* The process has not exited.
NotExited == -1
MaxActsChoices == {m \in 0..MaxActs : m % 5 = 0}

\* ------------------------------------------------------------- state
VARIABLES
    max_acts,           \* argument of scrape_comprehensive_legal_acts
    max_workers,        \* self.max_workers
    site,               \* the outside world: "any", "one per page" or "single"
    legal_acts,         \* table legal_acts: a bag of rows [celex_number, title, content]
    processed_celexes,  \* self.processed_celexes, the dedup registry
    pc,                 \* where the main thread is
    q,                  \* index of the current query, 1..RecentQuery
    acts,               \* _perform_search: stubs accumulated for the query
    page,               \* _perform_search: page number of the next listing request
    pages_fetched,      \* listing requests issued for the current query
    tasks,              \* the futures of _process_and_save_acts
    saved_count,        \* _process_and_save_acts: saved_count
    total_scraped,      \* _scrape_by_*: total_scraped of the running strategy
    scraped_count,      \* scrape_comprehensive_legal_acts: scraped_count
    delayed,            \* no request was issued since the start or since the last sleep ended
    interrupt,          \* SIGINT has been raised
    after,              \* listing requests issued after SIGINT (2: two or more)
    partial_stats,      \* the stats printed by the KeyboardInterrupt handler
    calls,              \* store specification: the save_legal_act calls made
    arg,                \* function specifications: the argument of the function
    ret,                \* function specifications: what the function has built or returned
    stats_only,         \* command: args.stats_only
    exit_code           \* command: the exit code of the process

vars == <<max_acts, max_workers, site, legal_acts, processed_celexes, pc, q, acts, page,
          pages_fetched, tasks, saved_count, total_scraped, scraped_count,
          delayed, interrupt, after, partial_stats, calls, arg, ret, stats_only, exit_code>>

\* The variables of the scraper and its store, but pc.
run_vars == <<max_acts, max_workers, site, legal_acts, processed_celexes, q, acts, page,
              pages_fetched, tasks, saved_count, total_scraped, scraped_count,
              delayed, interrupt, after, partial_stats, calls>>

\* ------------------------------------------------------------- the store
\* A row of legal_acts, as far as the harvester and its callers can tell rows apart.
Row(celex, title, content) ==
    [celex_number |-> celex, title |-> title, content |-> content]

\* Rows stored under one identifier.
RowsOf(table, celex) == {r \in BagToSet(table) : r.celex_number = celex}

RECURSIVE SumCopies(_, _)
SumCopies(table, rows) ==
    IF rows = {} THEN 0
    ELSE LET r == CHOOSE x \in rows : TRUE
         IN CopiesIn(r, table) + SumCopies(table, rows \ {r})

\* SELECT COUNT(*) FROM legal_acts WHERE celex_number = celex
CountOf(table, celex) == SumCopies(table, RowsOf(table, celex))

\* get_legal_act_count: SELECT COUNT(*) FROM legal_acts
get_legal_act_count(table) == SumCopies(table, BagToSet(table))

\* The bag without the rows in `rows`.
Without(table, rows) ==
    [r \in BagToSet(table) \ rows |-> table[r]]

\* A title column without NOT NULL: the INSERT takes any document.
SaveAcceptsNullTitle(doc) == FALSE

\* title TEXT NOT NULL: the INSERT raises sqlite3.IntegrityError.
SaveRaises(doc) == doc.title = None

\* INSERT OR IGNORE: the stored row wins.
InsertOrIgnore(table, doc) ==
    IF SaveRaises(doc) THEN table
    ELSE IF doc.celex_number # NoCelex /\ RowsOf(table, doc.celex_number) # {}
         THEN table
         ELSE table (+) SetToBag({doc})

\* save_legal_act: INSERT OR REPLACE INTO legal_acts.  celex_number is UNIQUE, so
\* the rows with the same non-NULL celex_number are deleted and the new row is
\* inserted; NULL never conflicts with NULL.  A NULL title aborts the statement
\* and leaves the table as it was.
save_legal_act(table, doc) ==
    IF SaveRaises(doc) THEN table
    ELSE IF doc.celex_number = NoCelex
         THEN table (+) SetToBag({doc})
         ELSE Without(table, RowsOf(table, doc.celex_number)) (+) SetToBag({doc})

\* get_legal_acts + the set comprehension of _load_existing_celexes.
StoredCelexes(table) ==
    {r.celex_number : r \in {x \in BagToSet(table) : x.celex_number # NoCelex}}

\* ------------------------------------------------------------- helpers
Min(a, b) == IF a < b THEN a ELSE b

\* acts[:n]
Take(s, n) == SubSeq(s, 1, Min(n, Len(s)))

\* max_acts handed on undivided.
BudgetUndivided == max_acts

\* max_acts // 4, the budget scrape_comprehensive_legal_acts hands to each strategy,
\* which hands it to each of its queries.
Budget == max_acts \div NumStrategies

\* The strategy a query belongs to: 1 by-type, 2 by-year, 3 by-subject, 4 recent.
StrategyOf(n) ==
    IF n <= NumDocumentTypes THEN 1
    ELSE IF n <= NumDocumentTypes + NumYears THEN 2
    ELSE IF n <= NumSearchQueries THEN 3
    ELSE 4

\* What _parse_search_result_comprehensive makes of one result item: a stub with
\* one of `ids` identifiers, or nothing (NoCelex).  The title of a stub is not
\* read before _get_detailed_act_info, and is drawn there.
Items(ids) == [celex_number : 0..ids]

\* The listing pages of at most n items over `ids` identifiers.
RECURSIVE Pages(_, _)
Pages(ids, n) ==
    IF n = 0 THEN {<<>>}
    ELSE {<<>>} \cup {<<it>> \o rest : it \in Items(ids), rest \in Pages(ids, n - 1)}

\* The two outside worlds of the specifications: a site that shows any of NumIds
\* identifiers, at most MaxItems per page; and a site that shows any of
\* NumBudgetIds identifiers, one per page.
SitePages == Pages(NumIds, MaxItems)
BudgetSitePages == Pages(NumBudgetIds, 1)
\* A third one, for the command: a site that shows one identifier, one per page.
SinglePages == Pages(1, 1)

RECURSIVE SelectItems(_, _)
SelectItems(items, known) ==
    IF items = <<>> THEN <<>>
    ELSE LET it == Head(items)
             rest == SelectItems(Tail(items), known)
         IN IF it.celex_number # NoCelex /\ it.celex_number \notin known
            THEN <<it>> \o rest
            ELSE rest

\* _perform_search, the loop over result_items: the stubs of the page that have an
\* identifier which is not in processed_celexes (read without the lock).
PageActs(items) == SelectItems(items, processed_celexes)

\* The futures of the stubs handed to executor.submit, in submission order.
Submit(stubs) ==
    [i \in 1..Len(stubs) |->
        [celex_number |-> stubs[i].celex_number, title |-> None, st |-> "queued"]]

\* Tasks a worker thread is executing.
Running == {i \in 1..Len(tasks) : tasks[i].st \in {"passed", "sleeping"}}
\* Futures that are done and that as_completed has not yielded yet.
Completed == {i \in 1..Len(tasks) : tasks[i].st \in {"done_ok", "done_fail", "done_skip"}}
\* Futures whose result the main thread has handled.
Collected == {i \in 1..Len(tasks) : tasks[i].st \in {"saved", "failed", "skipped"}}
\* Tasks that have issued their detail request.
Requested == {i \in 1..Len(tasks) :
                tasks[i].st \in {"sleeping", "done_ok", "done_fail", "saved", "failed"}}

\* The listing pages the site can return now.
ListingPages ==
    IF site = "one per page" THEN BudgetSitePages
    ELSE IF site = "single" THEN SinglePages
    ELSE SitePages

\* get_scraping_stats
get_scraping_stats ==
    [total_acts_in_db |-> get_legal_act_count(legal_acts),
     processed_celexes |-> Cardinality(processed_celexes)]

\* ------------------------------------------------------------- the run
\* No function is under test, and scrape_comprehensive_legal_acts is called
\* directly or by a command that was not given --stats-only and has not exited.
NoCommand ==
    /\ arg = None
    /\ ret = None
    /\ stats_only = FALSE
    /\ exit_code = NotExited

\* __init__ and _load_existing_celexes: the registry is seeded from the store, or
\* left empty when reading the store raises.
Init ==
    /\ max_acts \in MaxActsChoices
    /\ max_workers \in 1..MaxWorkers
    /\ site = "any"
    /\ \E n \in 0..MaxSeeded :
        /\ legal_acts = SetToBag({Row(i, "title", 1) : i \in 1..n})
        /\ processed_celexes \in {1..n, {}}
    /\ pc = "start"
    /\ q = 0
    /\ acts = <<>>
    /\ page = 1
    /\ pages_fetched = 0
    /\ tasks = <<>>
    /\ saved_count = 0
    /\ total_scraped = 0
    /\ scraped_count = 0
    /\ delayed = TRUE
    /\ interrupt = FALSE
    /\ after = 0
    /\ partial_stats = None
    /\ calls = <<>>
    /\ NoCommand

\* Unchanged by everything but the store specification and the set-up.
Fixed == <<max_acts, max_workers, site, calls, arg, ret, stats_only, exit_code>>

\* A listing request is issued (session.get in _perform_search or
\* _scrape_recent_legislation).
ListingRequest ==
    /\ pages_fetched' = pages_fetched + 1
    /\ after' = IF interrupt THEN Min(after + 1, 2) ELSE after

\* scrape_comprehensive_legal_acts is called: scraped_count = 0, then
\* _scrape_by_document_types(max_acts // 4) starts its first _perform_search.
Scrape ==
    /\ pc = "start"
    /\ pc' = "search"
    /\ q' = 1
    /\ acts' = <<>>
    /\ page' = 1
    /\ pages_fetched' = 0
    /\ scraped_count' = 0
    /\ total_scraped' = 0
    /\ UNCHANGED <<Fixed, legal_acts, processed_celexes, tasks, saved_count, delayed, interrupt, after, partial_stats>>

\* `while True`: the loop ends on one of its breaks only.
LoopConditionUnbounded == TRUE

\* _perform_search, `while len(acts) < max_results`
LoopCondition == Len(acts) < Budget

\* The same turn without `if len(page_acts) == 0: break`: the loop goes on to the
\* next page whatever the page held.
PageStepNoExhaustionStop(items) ==
    LET page_acts == PageActs(items) IN
    /\ ListingRequest
    /\ acts' = acts \o page_acts
    /\ pc' = "search"
    /\ page' = page + 1
    /\ delayed' = TRUE

\* One turn of the loop of _perform_search whose request succeeds: the page is
\* parsed, its new stubs are appended, and the loop either breaks (no new stub) or
\* sleeps and goes on to the next page.
PageStep(items) ==
    LET page_acts == PageActs(items) IN
    /\ ListingRequest
    /\ acts' = acts \o page_acts
    /\ IF page_acts = <<>>
       THEN /\ pc' = "search_return"
            /\ page' = page
            /\ delayed' = FALSE
       ELSE /\ pc' = "search"
            /\ page' = page + 1
            /\ delayed' = TRUE

\* A listing page arrives.
FetchPage(items) ==
    /\ pc = "search"
    /\ LoopCondition
    /\ PageStep(items)
    /\ UNCHANGED <<Fixed, legal_acts, processed_celexes, q, tasks, saved_count,
                   total_scraped, scraped_count, interrupt, partial_stats>>

\* The listing request raises and the same page is requested again.
FetchPageFailsRetry ==
    /\ pc = "search"
    /\ LoopCondition
    /\ ListingRequest
    /\ pc' = "search"
    /\ delayed' = FALSE
    /\ UNCHANGED <<Fixed, legal_acts, processed_celexes, q, acts, page, tasks,
                   saved_count, total_scraped, scraped_count, interrupt, partial_stats>>

\* The listing request raises and nothing catches the exception: it leaves
\* _perform_search, the strategy and scrape_comprehensive_legal_acts.
FetchPageFailsRaises ==
    /\ pc = "search"
    /\ LoopCondition
    /\ ListingRequest
    /\ pc' = "raised"
    /\ delayed' = FALSE
    /\ UNCHANGED <<Fixed, legal_acts, processed_celexes, q, acts, page, tasks,
                   saved_count, total_scraped, scraped_count, interrupt, partial_stats>>

\* The listing request raises (transport error, HTTP status): logged, break.
FetchPageFails ==
    /\ pc = "search"
    /\ LoopCondition
    /\ ListingRequest
    /\ pc' = "search_failed"
    /\ delayed' = FALSE
    /\ UNCHANGED <<Fixed, legal_acts, processed_celexes, q, acts, page, tasks,
                   saved_count, total_scraped, scraped_count, interrupt, partial_stats>>

\* `return acts`, without the slice.
SearchResultUntruncated == acts

\* `return acts[:max_results]`
SearchResult == Take(acts, Budget)

\* The stubs found so far are handed to the pool while the pagination of the query
\* goes on.
SearchReturnWhilePaging ==
    /\ pc = "search"
    /\ acts # <<>>
    /\ tasks = <<>>
    /\ pc' = "search"
    /\ tasks' = Submit(SearchResult)
    /\ saved_count' = 0
    /\ UNCHANGED <<Fixed, legal_acts, processed_celexes, q, acts, page, pages_fetched,
                   total_scraped, scraped_count, delayed, interrupt, after,
                   partial_stats>>

\* _perform_search returns and _process_and_save_acts submits one task per stub.
SearchReturn ==
    /\ \/ pc = "search" /\ ~LoopCondition
       \/ pc \in {"search_return", "search_failed"}
    /\ pc' = "pool"
    /\ tasks' = Submit(SearchResult)
    /\ saved_count' = 0
    /\ acts' = <<>>
    /\ page' = 1
    /\ pages_fetched' = 0
    /\ UNCHANGED <<Fixed, legal_acts, processed_celexes, q, total_scraped,
                   scraped_count, delayed, interrupt, after,
                   partial_stats>>

\* _scrape_recent_legislation: `for link in act_links[:max_acts]`, keeping the
\* links whose URL holds an identifier that is not in processed_celexes.
RecentActs(links) == SelectItems(Take(links, Budget), processed_celexes)

\* The recent-listing page arrives.
FetchRecent(links) ==
    /\ pc = "recent"
    /\ ListingRequest
    /\ delayed' = FALSE
    /\ tasks' = Submit(RecentActs(links))
    /\ saved_count' = 0
    /\ pc' = "pool"
    /\ UNCHANGED <<Fixed, legal_acts, processed_celexes, q, acts, page, total_scraped,
                   scraped_count, interrupt, partial_stats>>

\* The request for the recent-listing page raises: logged, the strategy returns 0
\* and scrape_comprehensive_legal_acts returns.
FetchRecentFails ==
    /\ pc = "recent"
    /\ ListingRequest
    /\ delayed' = FALSE
    /\ pc' = "done"
    /\ UNCHANGED <<Fixed, legal_acts, processed_celexes, q, acts, page, tasks,
                   saved_count, total_scraped, scraped_count, interrupt, partial_stats>>

\* ------------------------------------------------------------- the pool
\* A pool that starts every queued task at once.
WorkerAvailableUnbounded == TRUE

\* ThreadPoolExecutor(max_workers=self.max_workers): a queued task starts when
\* fewer than max_workers tasks are executing.
WorkerAvailable == Cardinality(Running) < max_workers

\* _get_detailed_act_info, `if not celex` and
\* `with self.lock: if celex in self.processed_celexes`.
\* The check reads the registry and does not change it.
AlreadyProcessed(celex) == celex = NoCelex \/ celex \in processed_celexes

\* A worker thread takes the next task of the queue (first in, first out) and runs
\* _get_detailed_act_info up to the request: the task returns None when its
\* identifier is in the registry, and goes on to the request otherwise.
TaskStart(i) ==
    /\ pc \in {"pool", "draining"}
    /\ i \in 1..Len(tasks)
    /\ tasks[i].st = "queued"
    /\ \A j \in 1..(i - 1) : tasks[j].st # "queued"
    /\ WorkerAvailable
    /\ tasks' = [tasks EXCEPT ![i].st =
                    IF AlreadyProcessed(tasks[i].celex_number) THEN "done_skip" ELSE "passed"]
    /\ UNCHANGED <<Fixed, legal_acts, processed_celexes, pc, q, acts, page, pages_fetched,
                   saved_count, total_scraped, scraped_count, delayed,
                   interrupt, after, partial_stats>>

\* The detail request of task i is issued (session.get(doc_url)).
DetailRequest(i) ==
    /\ delayed' = FALSE

\* `if not detailed_act.get('title')`: the title of the stub, or else the title
\* found on the detail page.
TitleOf(stub_title, page_title) ==
    IF stub_title # None THEN stub_title ELSE page_title

\* The detail page arrives and is parsed (stub_title: the title the listing gave
\* the stub, None on the recent listing; page_title: the title on the detail page;
\* None when no selector matches).  The task then sleeps.
DetailFetch(i, stub_title, page_title) ==
    /\ pc \in {"pool", "draining"}
    /\ i \in 1..Len(tasks)
    /\ tasks[i].st = "passed"
    /\ q = RecentQuery => stub_title = None
    /\ DetailRequest(i)
    /\ tasks' = [tasks EXCEPT ![i].st = "sleeping",
                              ![i].title = TitleOf(stub_title, page_title)]
    /\ UNCHANGED <<Fixed, legal_acts, processed_celexes, pc, q, acts, page, pages_fetched,
                   saved_count, total_scraped, scraped_count, interrupt, after,
                   partial_stats>>

\* The detail request or the parsing of the page raises: logged, the task returns
\* None.
DetailFetchFails(i) ==
    /\ pc \in {"pool", "draining"}
    /\ i \in 1..Len(tasks)
    /\ tasks[i].st = "passed"
    /\ DetailRequest(i)
    /\ tasks' = [tasks EXCEPT ![i].st = "done_fail"]
    /\ UNCHANGED <<Fixed, legal_acts, processed_celexes, pc, q, acts, page, pages_fetched,
                   saved_count, total_scraped, scraped_count, interrupt, after,
                   partial_stats>>

\* time.sleep(self.delay) of task i ends and the task returns detailed_act.
TaskSleepDone(i) ==
    /\ pc \in {"pool", "draining"}
    /\ i \in 1..Len(tasks)
    /\ tasks[i].st = "sleeping"
    /\ tasks' = [tasks EXCEPT ![i].st = "done_ok"]
    /\ delayed' = TRUE
    /\ UNCHANGED <<Fixed, legal_acts, processed_celexes, pc, q, acts, page, pages_fetched,
                   saved_count, total_scraped, scraped_count, interrupt, after, partial_stats>>

\* The document a finished task hands to save_legal_act.
DocOf(t) == Row(t.celex_number, t.title, 1)

\* An exception inside the as_completed loop ends the whole loop: the results not
\* yet collected are dropped.
OnTaskErrorAbort(ts, i) ==
    [j \in 1..Len(ts) |->
        IF j = i THEN [ts[j] EXCEPT !.st = "failed"]
        ELSE IF ts[j].st \in {"saved", "failed", "skipped"} THEN ts[j]
        ELSE [ts[j] EXCEPT !.st = "skipped"]]

\* `except Exception as e: log; continue`: the failure of one result leaves the
\* other futures as they are.
OnTaskError(ts, i) == [ts EXCEPT ![i].st = "failed"]

\* The same handling with the registry insertion placed before save_legal_act:
\* the identifier is in the registry whether or not the save raises.
CollectRegistersFirst(i, db_ok) ==
    /\ pc = "pool"
    /\ i \in Completed
    /\ CASE tasks[i].st = "done_skip" ->
              /\ tasks' = [tasks EXCEPT ![i].st = "skipped"]
              /\ UNCHANGED <<legal_acts, processed_celexes, saved_count>>
         [] tasks[i].st = "done_fail" ->
              /\ tasks' = OnTaskError(tasks, i)
              /\ UNCHANGED <<legal_acts, processed_celexes, saved_count>>
         [] tasks[i].st = "done_ok" ->
              /\ processed_celexes' = processed_celexes \cup {tasks[i].celex_number}
              /\ IF SaveRaises(DocOf(tasks[i])) \/ ~db_ok
                 THEN /\ tasks' = OnTaskError(tasks, i)
                      /\ UNCHANGED <<legal_acts, saved_count>>
                 ELSE /\ legal_acts' = save_legal_act(legal_acts, DocOf(tasks[i]))
                      /\ saved_count' = saved_count + 1
                      /\ tasks' = [tasks EXCEPT ![i].st = "saved"]
    /\ UNCHANGED <<Fixed, pc, q, acts, page, pages_fetched, total_scraped, scraped_count,
                   delayed, interrupt, after, partial_stats>>

\* as_completed yields the finished future i and the main thread handles its
\* result: nothing for None; otherwise save_legal_act, then the identifier is
\* added to the registry under the lock and saved_count is incremented.  A raising
\* save_legal_act (NULL title, or a database error: db_ok = FALSE) is logged.
Collect(i, db_ok) ==
    /\ pc = "pool"
    /\ i \in Completed
    /\ CASE tasks[i].st = "done_skip" ->
              /\ tasks' = [tasks EXCEPT ![i].st = "skipped"]
              /\ UNCHANGED <<legal_acts, processed_celexes, saved_count>>
         [] tasks[i].st = "done_fail" ->
              /\ tasks' = OnTaskError(tasks, i)
              /\ UNCHANGED <<legal_acts, processed_celexes, saved_count>>
         [] tasks[i].st = "done_ok" ->
              IF SaveRaises(DocOf(tasks[i])) \/ ~db_ok
              THEN /\ tasks' = OnTaskError(tasks, i)
                   /\ UNCHANGED <<legal_acts, processed_celexes, saved_count>>
              ELSE /\ legal_acts' = save_legal_act(legal_acts, DocOf(tasks[i]))
                   /\ processed_celexes' = processed_celexes \cup {tasks[i].celex_number}
                   /\ saved_count' = saved_count + 1
                   /\ tasks' = [tasks EXCEPT ![i].st = "saved"]
    /\ UNCHANGED <<Fixed, pc, q, acts, page, pages_fetched, total_scraped, scraped_count,
                   delayed, interrupt, after, partial_stats>>

\* The loop over as_completed ends without waiting for the futures still running.
BatchDoneNoWait == \A i \in 1..Len(tasks) : tasks[i].st # "queued"

\* as_completed is exhausted and the `with` block has shut the executor down:
\* every future is done and its result was handled.
BatchDone == \A i \in 1..Len(tasks) : i \in Collected

\* _process_and_save_acts returns saved_count.  After a search query the strategy
\* adds it to total_scraped, sleeps, and goes on to its next query; after its last
\* query it returns total_scraped, which is added to scraped_count.  After the
\* recent listing scrape_comprehensive_legal_acts returns.
FinishBatch ==
    /\ pc = "pool"
    /\ BatchDone
    /\ tasks' = <<>>
    /\ saved_count' = 0
    /\ IF q = RecentQuery
       THEN /\ pc' = "done"
            /\ scraped_count' = scraped_count + saved_count
            /\ UNCHANGED <<q, acts, page, pages_fetched, total_scraped, delayed>>
       ELSE /\ q' = q + 1
            /\ pc' = IF q + 1 = RecentQuery THEN "recent" ELSE "search"
            /\ acts' = <<>>
            /\ page' = 1
            /\ pages_fetched' = 0
            /\ delayed' = TRUE
            /\ IF StrategyOf(q + 1) # StrategyOf(q)
               THEN /\ scraped_count' = scraped_count + total_scraped + saved_count
                    /\ total_scraped' = 0
               ELSE /\ total_scraped' = total_scraped + saved_count
                    /\ UNCHANGED scraped_count
    /\ UNCHANGED <<Fixed, legal_acts, processed_celexes, interrupt,
                   after, partial_stats>>

\* The next-state relation of a run that no signal interrupts.
Next ==
    \/ Scrape
    \/ \E items \in ListingPages : FetchPage(items)
    \/ FetchPageFails
    \/ SearchReturn
    \/ \E links \in ListingPages : FetchRecent(links)
    \/ FetchRecentFails
    \/ \E i \in 1..Len(tasks) : TaskStart(i)
    \/ \E i \in 1..Len(tasks), s, t \in {None, "title"} : DetailFetch(i, s, t)
    \/ \E i \in 1..Len(tasks) : DetailFetchFails(i)
    \/ \E i \in 1..Len(tasks) : TaskSleepDone(i)
    \/ \E i \in 1..Len(tasks), db_ok \in BOOLEAN : Collect(i, db_ok)
    \/ FinishBatch

Spec == Init /\ [][Next]_vars

\* Runs on a site that holds more documents than max_acts and lists them one per
\* page, with one worker and an empty store.
InitBudget ==
    /\ max_acts \in {m \in MaxActsChoices : m \div NumStrategies = 1}
    /\ max_workers = 1
    /\ site = "one per page"
    /\ legal_acts = EmptyBag
    /\ processed_celexes = {}
    /\ pc = "start"
    /\ q = 0
    /\ acts = <<>>
    /\ page = 1
    /\ pages_fetched = 0
    /\ tasks = <<>>
    /\ saved_count = 0
    /\ total_scraped = 0
    /\ scraped_count = 0
    /\ delayed = TRUE
    /\ interrupt = FALSE
    /\ after = 0
    /\ partial_stats = None
    /\ calls = <<>>
    /\ NoCommand

SpecBudget == InitBudget /\ [][Next]_vars

\* ------------------------------------------------------------- SIGINT
\* KeyboardInterrupt is raised in the main thread.  No `except Exception` of the
\* scraper catches it.  Outside the pool it reaches the handler of the command at
\* once, which prints get_scraping_stats().  Inside _process_and_save_acts the
\* `with` block first shuts the executor down with wait=True: the queued and the
\* running tasks all run to their end, and no result is collected any more.
Interrupt ==
    /\ ~interrupt
    /\ pc \in {"search", "search_return", "search_failed", "recent", "pool"}
    /\ interrupt' = TRUE
    /\ IF pc = "pool"
       THEN /\ pc' = "draining"
            /\ UNCHANGED partial_stats
       ELSE /\ pc' = "interrupted"
            /\ partial_stats' = get_scraping_stats
    /\ UNCHANGED <<Fixed, legal_acts, processed_celexes, q, acts, page, pages_fetched,
                   tasks, saved_count, total_scraped, scraped_count, delayed, after>>

\* executor.shutdown(wait=True) returns: no task is queued or running.
Drained == \A i \in 1..Len(tasks) : tasks[i].st \notin {"queued", "passed", "sleeping"}

\* The KeyboardInterrupt leaves the `with` block and reaches the handler.
DrainDone ==
    /\ pc = "draining"
    /\ Drained
    /\ pc' = "interrupted"
    /\ partial_stats' = get_scraping_stats
    /\ UNCHANGED <<Fixed, legal_acts, processed_celexes, q, acts, page, pages_fetched,
                   tasks, saved_count, total_scraped, scraped_count, delayed,
                   interrupt, after>>

\* KeyboardInterrupt is raised while the main thread is inside
\* _extract_celex_from_url for an item of the page just fetched: the bare `except:`
\* catches it and returns None, the item goes on without an identifier from its
\* URL, and the loop of _perform_search goes on as if no signal had been raised.
SwallowedInterrupt(items) ==
    /\ ~interrupt
    /\ pc = "search"
    /\ LoopCondition
    /\ items # <<>>
    /\ interrupt' = TRUE
    /\ PageStep(items)
    /\ UNCHANGED <<Fixed, legal_acts, processed_celexes, q, tasks, saved_count,
                   total_scraped, scraped_count, partial_stats>>

\* The next-state relation of a run that SIGINT may interrupt.
NextSigint ==
    \/ Next
    \/ Interrupt
    \/ DrainDone
    \/ \E items \in ListingPages : SwallowedInterrupt(items)

SpecSigint == Init /\ [][NextSigint]_vars

\* ------------------------------------------------- the store on its own
\* The documents handed to save_legal_act.
Docs == {Row(c, t, n) : c \in 0..NumIds, t \in {None, "title"}, n \in 1..NumContents}

InitStore ==
    /\ max_acts = 0
    /\ max_workers = 1
    /\ site = "any"
    /\ legal_acts = EmptyBag
    /\ processed_celexes = {}
    /\ pc = "store"
    /\ q = 0
    /\ acts = <<>>
    /\ page = 1
    /\ pages_fetched = 0
    /\ tasks = <<>>
    /\ saved_count = 0
    /\ total_scraped = 0
    /\ scraped_count = 0
    /\ delayed = TRUE
    /\ interrupt = FALSE
    /\ after = 0
    /\ partial_stats = None
    /\ calls = <<>>
    /\ NoCommand

\* One call of save_legal_act(doc).  `calls` records the document, whether the call
\* raised, and get_legal_act_count() after it.
SaveLegalAct(doc) ==
    /\ pc = "store"
    /\ Len(calls) < MaxCalls
    /\ legal_acts' = save_legal_act(legal_acts, doc)
    /\ calls' = Append(calls, [doc |-> doc,
                               raised |-> SaveRaises(doc),
                               count |-> get_legal_act_count(legal_acts')])
    /\ UNCHANGED <<max_acts, max_workers, site, processed_celexes, pc, q, acts, page,
                   pages_fetched, tasks, saved_count, total_scraped, scraped_count,
                   delayed, interrupt, after, partial_stats, arg, ret, stats_only,
                   exit_code>>

NextStore == \E doc \in Docs : SaveLegalAct(doc)

SpecStore == InitStore /\ [][NextStore]_vars

\* ------------------------------------------------------------- claims
\* Task i issues its detail request in this step.
DetailRequestStep(i) ==
    /\ i \in 1..Len(tasks)
    /\ Len(tasks') = Len(tasks)
    /\ tasks[i].st = "passed"
    /\ tasks'[i].st \in {"sleeping", "done_fail"}

\* A listing request (search page or recent-listing page) is issued in this step.
ListingRequestStep == pages_fetched' = pages_fetched + 1

\* Every task of the batch has finished and its result was handled.
BatchHandled ==
    \A i \in 1..Len(tasks) : tasks[i].st \in {"saved", "failed", "skipped"}

\* No task of the batch waits in the queue or executes.
NoTaskPending ==
    \A i \in 1..Len(tasks) : tasks[i].st \notin {"queued", "passed", "sleeping"}

\* The identifiers of a batch are pairwise distinct.
DistinctIds(ts) ==
    \A i, j \in 1..Len(ts) : i # j => ts[i].celex_number # ts[j].celex_number

\* C1 (as claimed): no identifier has its detail page requested more than once:
\* of the tasks of a batch that carry the same identifier, at most one issues the
\* request.
C1_ExactlyOnceDetailFetch ==
    \A i, j \in Requested : i # j => tasks[i].celex_number # tasks[j].celex_number

\* C2 (as claimed): a worker that has passed the membership check for an
\* identifier, and is about to request its detail page, finds the identifier
\* marked in the registry.
C2_ReservedBeforeFetch ==
    \A i \in 1..Len(tasks) :
        tasks[i].st = "passed" => tasks[i].celex_number \in processed_celexes

\* The last two calls of save_legal_act carry the same non-empty identifier and
\* different content.
SameIdentifierTwice ==
    /\ Len(calls) >= 2
    /\ LET c1 == calls[Len(calls) - 1]
           c2 == calls[Len(calls)]
       IN /\ c1.doc.celex_number = c2.doc.celex_number
          /\ c2.doc.celex_number # NoCelex
          /\ c1.doc # c2.doc

\* After the second of two such calls: one record under the identifier, holding
\* the second submission, and the record count of after the first call.
SecondSubmissionStored ==
    LET c1 == calls[Len(calls) - 1]
        c2 == calls[Len(calls)]
    IN /\ CountOf(legal_acts, c2.doc.celex_number) = 1
       /\ RowsOf(legal_acts, c2.doc.celex_number) = {c2.doc}
       /\ c2.count = c1.count

BothTitled ==
    /\ calls[Len(calls) - 1].doc.title # None
    /\ calls[Len(calls)].doc.title # None

C4_BudgetConservation ==
    pc = "done" => /\ scraped_count <= NumStrategies * Budget
                   /\ scraped_count <= max_acts

\* C5: when _process_and_save_acts has handled a batch of pairwise distinct
\* identifiers, every task has either failed (transport, parse or persistence
\* error) or has its document in the store, and saved_count is the batch size
\* minus the number of failed tasks.
C5_FailureIsolation ==
    (pc = "pool" /\ BatchHandled /\ DistinctIds(tasks)) =>
        /\ \A i \in 1..Len(tasks) :
              /\ tasks[i].st \in {"saved", "failed"}
              /\ tasks[i].st = "saved" => DocOf(tasks[i]) \in BagToSet(legal_acts)
        /\ saved_count =
              Len(tasks) - Cardinality({i \in 1..Len(tasks) : tasks[i].st = "failed"})

\* C5 witness: a batch of two distinct identifiers is handled, one task failed
\* and the other one is saved.
C5_Witness ==
    /\ pc = "pool"
    /\ BatchHandled
    /\ DistinctIds(tasks)
    /\ Len(tasks) = 2
    /\ \E i, j \in 1..2 : tasks[i].st = "failed" /\ tasks[j].st = "saved"

\* C6 (as claimed): once SIGINT was raised, at most one further listing page is
\* requested and no later query is started, and the stats the handler prints are
\* those of the store.
C6_CooperativeCancellation ==
    [][interrupt =>
          /\ q' = q
          /\ after' <= 1
          /\ pc' = "interrupted" =>
                partial_stats'.total_acts_in_db = get_legal_act_count(legal_acts')]_vars

\* C7 (as claimed): every outbound request (listing page, recent-listing page,
\* detail page) but the first is issued after a politeness delay that ended after
\* the request before it.
C7_RateLimiting ==
    [][(ListingRequestStep \/ \E i \in 1..Len(tasks) : DetailRequestStep(i)) => delayed]_vars

\* C8: the queries, and so the strategies, run one after the other in their fixed
\* order; a query, or the end of the run, follows only when every detail task of
\* the batch before it was finished and handled; and no listing request is issued
\* while a batch exists.
C8_StrategySequencing ==
    [][/\ q' # q => q' = q + 1 /\ StrategyOf(q') \in {StrategyOf(q), StrategyOf(q) + 1}
       /\ (q' # q /\ q >= 1) => NoTaskPending
       /\ (pc = "pool" /\ pc' = "done") => NoTaskPending
       /\ ListingRequestStep => tasks = <<>>]_vars

\* C8 witness: a detail task of the second strategy is running.
C8_Witness ==
    /\ StrategyOf(q) = 2
    /\ pc = "pool"
    /\ Running # {}

\* C9: the number of detail tasks executing at the same time is at most
\* max_workers.
C9_BoundedPool == Cardinality(Running) <= max_workers

\* C9 witness: max_workers tasks are executing and a further task waits in the
\* queue.
C9_Witness ==
    /\ Cardinality(Running) = max_workers
    /\ \E i \in 1..Len(tasks) : tasks[i].st = "queued"

\* C10: _perform_search hands on the first Budget stubs it accumulated, in their
\* order, and never more than Budget; it requests a listing page only while it
\* holds fewer than Budget stubs, so none when Budget is 0.
C10_PaginatorBudget ==
    [][/\ (pc \in {"search", "search_return", "search_failed"} /\ pc' = "pool") =>
              /\ Len(tasks') <= Budget
              /\ Len(tasks') = Min(Budget, Len(acts))
              /\ \A i \in 1..Len(tasks') :
                    tasks'[i].celex_number = acts[i].celex_number
       /\ (pc = "search" /\ ListingRequestStep) => Len(acts) < Budget]_vars

\* C10 witness: the pages of a query have yielded more stubs than the budget.
C10_Witness ==
    /\ pc = "search"
    /\ Budget > 0
    /\ Len(acts) > Budget

\* The largest budget of a query in the runs of the model.
MaxBudget == MaxActs \div NumStrategies

\* A page ceiling that does not depend on the budget lies, for a large enough
\* budget, below the budget: the ceiling here lies below the largest budget.
PageCeiling == MaxBudget - 1

\* C11 (as claimed): the number of listing pages requested for one query never
\* exceeds a ceiling that is independent of the budget.
C11_HardPageCeiling == pages_fetched <= PageCeiling

\* C12: a failed request for listing page k ends the pagination of the query
\* without a retry and without an exception reaching the caller: the stubs of the
\* pages before are kept as they are, no further listing request follows, and the
\* next step of the run submits those stubs, truncated to the budget, to the pool
\* under the same query.  The loop requests a further page only after a page that
\* arrived, so never the same page twice.
C12_ListingTransportFailure ==
    [][/\ pc' = "search_failed" =>
              /\ pc = "search"
              /\ ListingRequestStep
              /\ acts' = acts
              /\ page' = page
       /\ pc = "search_failed" =>
              /\ ~ListingRequestStep
              /\ pc' = "pool"
              /\ q' = q
              /\ tasks' = Submit(Take(acts, Budget))
       /\ (pc = "search" /\ pc' = "search" /\ ListingRequestStep) =>
              page' = page + 1]_vars

\* C12 witness: the request for page 2 of a query has failed after page 1 gave a
\* stub.
C12_Witness ==
    /\ pc = "search_failed"
    /\ page = 2
    /\ acts # <<>>

\* ------------------------------------------- _extract_comprehensive_metadata
\* Rows of a metadata table, entries of a definition list and elements found by
\* data-testid, per layer of a detail page.
MaxRows == 2

\* get_text(strip=True) of an element: empty or not.
Texts == {"", "a", "b"}

\* The field is not in the metadata dict.
Absent == "absent"

\* The sequences over S of length at most n.
RECURSIVE SeqsUpTo(_, _)
SeqsUpTo(S, n) ==
    IF n = 0 THEN {<<>>}
    ELSE {<<>>} \cup {<<x>> \o rest : x \in S, rest \in SeqsUpTo(S, n - 1)}

\* A row of a table or an entry of a definition list: whether its key holds
\* 'subject', and its value.
KeyedRows == [key : {"subject", "other"}, value : Texts]

\* A detail page, as far as the field subject_matter goes: the texts of the
\* elements found for the data-testids of the field, in the order of the mapping;
\* the rows of the metadata tables; the dt/dd pairs.
Soups ==
    [testids : SeqsUpTo(Texts, MaxRows),
     table : SeqsUpTo(KeyedRows, MaxRows),
     dl : SeqsUpTo(KeyedRows, MaxRows)]

\* `for test_id in test_ids: ... if elem: metadata[field] = text; break`
FromTestIds(metadata, found) ==
    IF found = <<>> THEN metadata ELSE [metadata EXCEPT !.subject_matter = Head(found)]

\* `for row in rows: if 'subject' in key: metadata['subject_matter'] = value`,
\* the same loop for the dt/dd pairs.
RECURSIVE FromRows(_, _)
FromRows(metadata, rows) ==
    IF rows = <<>> THEN metadata
    ELSE FromRows(IF Head(rows).key = "subject"
                  THEN [metadata EXCEPT !.subject_matter = Head(rows).value]
                  ELSE metadata,
                  Tail(rows))

InitMetadata ==
    /\ pc = "testids"
    /\ arg \in Soups
    /\ ret = [subject_matter |-> Absent]
    /\ stats_only = FALSE
    /\ exit_code = NotExited
    /\ max_acts = 0
    /\ max_workers = 1
    /\ site = "any"
    /\ legal_acts = EmptyBag
    /\ processed_celexes = {}
    /\ q = 0
    /\ acts = <<>>
    /\ page = 1
    /\ pages_fetched = 0
    /\ tasks = <<>>
    /\ saved_count = 0
    /\ total_scraped = 0
    /\ scraped_count = 0
    /\ delayed = TRUE
    /\ interrupt = FALSE
    /\ after = 0
    /\ partial_stats = None
    /\ calls = <<>>

\* "Extract using data-testid attributes"
ExtractTestIds ==
    /\ pc = "testids"
    /\ ret' = FromTestIds(ret, arg.testids)
    /\ pc' = "tables"
    /\ UNCHANGED <<run_vars, arg, stats_only, exit_code>>

\* "Extract from metadata tables"
ExtractTables ==
    /\ pc = "tables"
    /\ ret' = FromRows(ret, arg.table)
    /\ pc' = "definition lists"
    /\ UNCHANGED <<run_vars, arg, stats_only, exit_code>>

\* "Extract from definition lists", and `return metadata`
ExtractDefinitionLists ==
    /\ pc = "definition lists"
    /\ ret' = FromRows(ret, arg.dl)
    /\ pc' = "returned"
    /\ UNCHANGED <<run_vars, arg, stats_only, exit_code>>

NextMetadata == ExtractTestIds \/ ExtractTables \/ ExtractDefinitionLists

SpecMetadata == InitMetadata /\ [][NextMetadata]_vars

\* C13 (as claimed): once a layer has given the field a non-empty value, no later
\* layer replaces it by a different value.
C13_FirstMatchWins ==
    [][(ret.subject_matter \notin {Absent, ""}) =>
            ret'.subject_matter = ret.subject_matter]_vars

\* --------------------------------------- _parse_search_result_comprehensive
\* One result item of a listing page: whether a title selector matches; the
\* identifier _extract_celex_from_url finds in the href of the title link; for the
\* elements the celex selectors match, in the order of the selectors, the
\* identifier _extract_celex_from_text finds in their text (NoCelex: none, the
\* function returned None); whether a selector call or a text call raises.
ResultItems ==
    [title_link : BOOLEAN,
     href : 0..NumIds,
     celex_texts : SeqsUpTo(0..NumIds, MaxRows),
     raises : BOOLEAN]

\* `for selector in celex_selectors: ... if celex: act['celex_number'] = celex; break`
RECURSIVE FirstCelex(_)
FirstCelex(texts) ==
    IF texts = <<>> THEN NoCelex
    ELSE IF Head(texts) # NoCelex THEN Head(texts)
    ELSE FirstCelex(Tail(texts))

\* act.get('celex_number') at the end of the function: the identifier of the href
\* when there is a title link and its href holds one, else the first identifier
\* found in the texts.
CelexOfItem(item) ==
    LET from_url == IF item.title_link THEN item.href ELSE NoCelex
    IN IF from_url # NoCelex THEN from_url ELSE FirstCelex(item.celex_texts)

\* `return act`, whatever the identifier (<<>> stands for None).
parse_search_result_keeps_act(item) ==
    IF item.raises THEN <<>> ELSE <<[celex_number |-> CelexOfItem(item)]>>

\* _parse_search_result_comprehensive: `return act if act.get('celex_number') else
\* None`, and None from the `except Exception` (<<>> stands for None).
parse_search_result_comprehensive(item) ==
    IF item.raises THEN <<>>
    ELSE IF CelexOfItem(item) # NoCelex
         THEN <<[celex_number |-> CelexOfItem(item)]>>
         ELSE <<>>

InitParse ==
    /\ pc = "parse"
    /\ arg \in ResultItems
    /\ ret = <<>>
    /\ processed_celexes \in {{}, {1}}
    /\ stats_only = FALSE
    /\ exit_code = NotExited
    /\ max_acts = 0
    /\ max_workers = 1
    /\ site = "any"
    /\ legal_acts = EmptyBag
    /\ q = 0
    /\ acts = <<>>
    /\ page = 1
    /\ pages_fetched = 0
    /\ tasks = <<>>
    /\ saved_count = 0
    /\ total_scraped = 0
    /\ scraped_count = 0
    /\ delayed = TRUE
    /\ interrupt = FALSE
    /\ after = 0
    /\ partial_stats = None
    /\ calls = <<>>

\* _perform_search, `act = self._parse_search_result_comprehensive(item)`
ParseResultItem ==
    /\ pc = "parse"
    /\ ret' = parse_search_result_comprehensive(arg)
    /\ pc' = "parsed"
    /\ UNCHANGED <<run_vars, arg, stats_only, exit_code>>

\* _perform_search, `if act and act.get('celex_number') not in
\* self.processed_celexes: page_acts.append(act)`, and acts.extend(page_acts)
AppendPageAct ==
    /\ pc = "parsed"
    /\ acts' = IF ret # <<>> /\ ret[1].celex_number \notin processed_celexes
               THEN acts \o ret
               ELSE acts
    /\ pc' = "appended"
    /\ UNCHANGED <<max_acts, max_workers, site, legal_acts, processed_celexes, q, page,
                   pages_fetched, tasks, saved_count, total_scraped, scraped_count,
                   delayed, interrupt, after, partial_stats, calls, arg, ret,
                   stats_only, exit_code>>

NextParse == ParseResultItem \/ AppendPageAct

SpecParse == InitParse /\ [][NextParse]_vars

\* C14: _parse_search_result_comprehensive returns None or a stub with an
\* identifier, also when a call inside it raises, and every stub _perform_search
\* accumulates for the worker pool has an identifier.
C14_StubsHaveIdentifier ==
    /\ pc \in {"parsed", "appended"} =>
          /\ ret = <<>> \/ ret[1].celex_number # NoCelex
          /\ arg.raises => ret = <<>>
    /\ \A i \in 1..Len(acts) : acts[i].celex_number # NoCelex

\* C14 witness: a result item with a title link, whose href and whose texts hold
\* no identifier, was parsed without an exception, and nothing was appended.
C14_Witness ==
    /\ pc = "appended"
    /\ arg.title_link
    /\ ~arg.raises
    /\ CelexOfItem(arg) = NoCelex
    /\ arg.celex_texts # <<>>
    /\ acts = <<>>

\* ------------------------- _extract_celex_from_url, _extract_celex_from_text
\* Runs of characters in a URL or text.
MaxRuns == 3

\* [0-9]{5} and [0-9]{4} of the identifier pattern.
DigitsBefore == 5
DigitsAfter == 4

\* Classes of characters: digit, upper-case letter, lower-case letter, and a
\* delimiter ("&" or "/", a non-word character).
Chars == {"d", "U", "l", "&"}

\* A string is drawn as runs of one class each, of the lengths the pattern counts.
Runs == [ch : Chars, n : {1, DigitsAfter, DigitsBefore}]

RECURSIVE Expand(_)
Expand(runs) ==
    IF runs = <<>> THEN <<>>
    ELSE [i \in 1..Head(runs).n |-> Head(runs).ch] \o Expand(Tail(runs))

\* What precedes the rest of a URL: nothing of interest, or the word CELEX (in any
\* case, (?i)) on its own, with a colon, or with an equals sign.
Keys == {"", "CELEX", "CELEX:", "celex="}

\* The arguments: a URL (key and rest) or a visible text.
CelexArgs ==
    [kind : {"url"}, key : Keys, s : {Expand(r) : r \in SeqsUpTo(Runs, MaxRuns)}]
    \cup [kind : {"text"}, key : {""}, s : {Expand(r) : r \in SeqsUpTo(Runs, MaxRuns)}]

\* s[i..] starts with [0-9]{5}<letter>[0-9]{4}, the letter taken from `letters`.
MatchAt(s, i, letters) ==
    /\ i + DigitsBefore + DigitsAfter <= Len(s)
    /\ \A k \in 0..(DigitsBefore - 1) : s[i + k] = "d"
    /\ s[i + DigitsBefore] \in letters
    /\ \A k \in 1..DigitsAfter : s[i + DigitsBefore + k] = "d"

\* \b before position i and after position j of s (inside the pattern both ends
\* are digits, word characters).
Boundary(s, i, j) ==
    /\ i = 1 \/ s[i - 1] = "&"
    /\ j = Len(s) \/ s[j + 1] = "&"

\* The longest prefix of s without a delimiter: ([^&/]+) when it is not empty.
RECURSIVE UpToDelimiter(_)
UpToDelimiter(s) ==
    IF s = <<>> \/ Head(s) = "&" THEN <<>>
    ELSE <<Head(s)>> \o UpToDelimiter(Tail(s))

\* The alternative pattern applied whatever precedes the rest of the URL.
extract_celex_from_url_unanchored(url) ==
    IF url.key \in {"CELEX", "CELEX:"} /\ MatchAt(url.s, 1, {"U", "l"})
    THEN SubSeq(url.s, 1, DigitsBefore + 1 + DigitsAfter)
    ELSE UpToDelimiter(url.s)

\* _extract_celex_from_url (<<>> stands for None):
\* re.search(r'CELEX:?([0-9]{5}[A-Z][0-9]{4})', url, re.IGNORECASE), else
\* re.search(r'celex[=:]([^&/]+)', url, re.IGNORECASE), else None.
extract_celex_from_url(url) ==
    IF url.key \in {"CELEX", "CELEX:"} /\ MatchAt(url.s, 1, {"U", "l"})
    THEN SubSeq(url.s, 1, DigitsBefore + 1 + DigitsAfter)
    ELSE IF url.key \in {"CELEX:", "celex="}
         THEN UpToDelimiter(url.s)
         ELSE <<>>

\* _extract_celex_from_text (<<>> stands for None):
\* re.search(r'\b([0-9]{5}[A-Z][0-9]{4})\b', text), the leftmost match.
extract_celex_from_text(text) ==
    LET len == DigitsBefore + 1 + DigitsAfter
        hits == {i \in 1..Len(text.s) :
                    MatchAt(text.s, i, {"U"}) /\ Boundary(text.s, i, i + len - 1)}
    IN IF hits = {} THEN <<>>
       ELSE LET first == CHOOSE i \in hits : \A j \in hits : i <= j
            IN SubSeq(text.s, first, first + len - 1)

InitCelex ==
    /\ pc = "extract"
    /\ arg \in CelexArgs
    /\ ret = <<>>
    /\ stats_only = FALSE
    /\ exit_code = NotExited
    /\ max_acts = 0
    /\ max_workers = 1
    /\ site = "any"
    /\ legal_acts = EmptyBag
    /\ processed_celexes = {}
    /\ q = 0
    /\ acts = <<>>
    /\ page = 1
    /\ pages_fetched = 0
    /\ tasks = <<>>
    /\ saved_count = 0
    /\ total_scraped = 0
    /\ scraped_count = 0
    /\ delayed = TRUE
    /\ interrupt = FALSE
    /\ after = 0
    /\ partial_stats = None
    /\ calls = <<>>

\* celex = self._extract_celex_from_url(href)
ExtractFromUrl ==
    /\ pc = "extract"
    /\ arg.kind = "url"
    /\ ret' = extract_celex_from_url(arg)
    /\ pc' = "extracted"
    /\ UNCHANGED <<run_vars, arg, stats_only, exit_code>>

\* celex = self._extract_celex_from_text(celex_text)
ExtractFromText ==
    /\ pc = "extract"
    /\ arg.kind = "text"
    /\ ret' = extract_celex_from_text(arg)
    /\ pc' = "extracted"
    /\ UNCHANGED <<run_vars, arg, stats_only, exit_code>>

NextCelex == ExtractFromUrl \/ ExtractFromText

SpecCelex == InitCelex /\ [][NextCelex]_vars

\* An identifier of the fixed form: 5 digits, 1 letter, 4 digits.
HasCelexForm(id) ==
    /\ Len(id) = DigitsBefore + 1 + DigitsAfter
    /\ MatchAt(id, 1, {"U", "l"})

\* The string holds the fixed form somewhere.
ContainsCelexForm(s) == \E i \in 1..Len(s) : MatchAt(s, i, {"U", "l"})

InitMain ==
    /\ max_acts \in MaxActsChoices
    /\ max_workers = 1
    /\ site = "single"
    /\ \E n \in 0..MaxSeeded :
        /\ legal_acts = SetToBag({Row(i, "title", 1) : i \in 1..n})
        /\ processed_celexes = 1..n
    /\ pc = "main"
    /\ q = 0
    /\ acts = <<>>
    /\ page = 1
    /\ pages_fetched = 0
    /\ tasks = <<>>
    /\ saved_count = 0
    /\ total_scraped = 0
    /\ scraped_count = 0
    /\ delayed = TRUE
    /\ interrupt = FALSE
    /\ after = 0
    /\ partial_stats = None
    /\ calls = <<>>
    /\ arg = None
    /\ ret = [message |-> "none", stats |-> <<>>]
    /\ stats_only \in BOOLEAN
    /\ exit_code = NotExited

\* The scraper is constructed and "Current Database Statistics" are printed.
MainCurrentStats ==
    /\ pc = "main"
    /\ ret' = [message |-> "current", stats |-> <<get_scraping_stats>>]
    /\ pc' = "stats printed"
    /\ UNCHANGED <<run_vars, arg, stats_only, exit_code>>

\* The check of --stats-only is left out.
StatsOnlyIgnored == FALSE

\* `if args.stats_only: return`
StatsOnly == stats_only

\* main returns after the current stats: the process ends with code 0.
MainStatsOnly ==
    /\ pc = "stats printed"
    /\ StatsOnly
    /\ pc' = "exited"
    /\ exit_code' = 0
    /\ UNCHANGED <<run_vars, arg, ret, stats_only>>

\* main goes on to scraper.scrape_comprehensive_legal_acts(max_acts=args.max_acts).
MainStartScraping ==
    /\ pc = "stats printed"
    /\ ~StatsOnly
    /\ pc' = "start"
    /\ UNCHANGED <<run_vars, arg, ret, stats_only, exit_code>>

\* Every way out of the try statement exits with code 1.
ExitCodeOneAfterTry(message) == 1

\* The exit code after the try statement: sys.exit(1) in `except Exception`, and 0
\* when main returns after the `try` body or after `except KeyboardInterrupt`.
ExitCode(message) == IF message = "error" THEN 1 ELSE 0

\* scrape_comprehensive_legal_acts has returned: "Scraping completed
\* successfully" and the final stats are printed; or get_scraping_stats raises (a
\* database error, db_ok = FALSE) and `except Exception` prints the error.
MainCompleted(db_ok) ==
    /\ pc = "done"
    /\ exit_code = NotExited
    /\ ret' = IF db_ok
              THEN [message |-> "completed", stats |-> Append(ret.stats, get_scraping_stats)]
              ELSE [message |-> "error", stats |-> ret.stats]
    /\ exit_code' = ExitCode(ret'.message)
    /\ pc' = "exited"
    /\ UNCHANGED <<run_vars, arg, stats_only>>

\* `except KeyboardInterrupt`: "Scraping interrupted by user" and the partial
\* stats were printed, main returns.
MainInterrupted ==
    /\ pc = "interrupted"
    /\ exit_code = NotExited
    /\ ret' = [message |-> "interrupted", stats |-> Append(ret.stats, partial_stats)]
    /\ exit_code' = ExitCode(ret'.message)
    /\ pc' = "exited"
    /\ UNCHANGED <<run_vars, arg, stats_only>>

NextMain ==
    \/ MainCurrentStats
    \/ MainStatsOnly
    \/ MainStartScraping
    \/ NextSigint
    \/ \E db_ok \in BOOLEAN : MainCompleted(db_ok)
    \/ MainInterrupted

SpecMain == InitMain /\ [][NextMain]_vars

\* C16: the command exits with code 0 after "completed successfully" and after
\* "interrupted by user" with the partial stats, and with code 1 after a failure
\* that reached `except Exception`.
C16_ExitCode ==
    pc = "exited" =>
        /\ ret.message \in {"completed", "interrupted"} => exit_code = 0
        /\ ret.message = "error" => exit_code = 1

\* C16 witness: the command was interrupted while a detail task was running,
\* printed the partial stats of a store with a record, and has exited.
C16_Witness ==
    /\ pc = "exited"
    /\ interrupt
    /\ ret.message = "interrupted"
    /\ tasks # <<>>
    /\ ret.stats[Len(ret.stats)].total_acts_in_db >= 1

\* C17: run with --stats-only, the command issues no listing and no detail
\* request, starts no task, leaves the store and the registry as they are, and
\* ends with code 0 after it has printed the current stats and nothing else.
C17_StatsOnly ==
    [][stats_only =>
          /\ ~ListingRequestStep
          /\ tasks' = <<>>
          /\ legal_acts' = legal_acts
          /\ processed_celexes' = processed_celexes
          /\ pc' \in {"stats printed", "exited"}
          /\ pc' = "exited" =>
                /\ exit_code' = 0
                /\ ret'.message = "current"
                /\ ret'.stats = <<get_scraping_stats>>]_vars

\* C17 witness: run with --stats-only on a store that holds a record, the
\* command has printed the stats and has exited.
C17_Witness ==
    /\ stats_only
    /\ pc = "exited"
    /\ get_legal_act_count(legal_acts) >= 1
    /\ ret.stats = <<get_scraping_stats>>

\* save_legal_act is called for the document of task i and returns in this step.
UpsertStep(i) ==
    /\ i \in 1..Len(tasks)
    /\ Len(tasks') = Len(tasks)
    /\ tasks[i].st = "done_ok"
    /\ tasks'[i].st = "saved"

\* C18 (as claimed): an identifier in the registry stays in it, and for an
\* identifier that is in the registry no detail request is issued and no upsert is
\* made.
C18_KnownStayKnown ==
    [][/\ processed_celexes \subseteq processed_celexes'
       /\ \A i \in 1..Len(tasks) :
             (DetailRequestStep(i) \/ UpsertStep(i)) =>
                 tasks[i].celex_number \notin processed_celexes]_vars

\* ------------------------------------------------- a run that is left to end
\* scrape_comprehensive_legal_acts against the site of one identifier.
InitSingle ==
    /\ max_acts \in MaxActsChoices
    /\ max_workers \in 1..MaxWorkers
    /\ site = "single"
    /\ legal_acts = EmptyBag
    /\ processed_celexes = {}
    /\ pc = "start"
    /\ q = 0
    /\ acts = <<>>
    /\ page = 1
    /\ pages_fetched = 0
    /\ tasks = <<>>
    /\ saved_count = 0
    /\ total_scraped = 0
    /\ scraped_count = 0
    /\ delayed = TRUE
    /\ interrupt = FALSE
    /\ after = 0
    /\ partial_stats = None
    /\ calls = <<>>
    /\ NoCommand

\* Every request returns or raises in the end, every sleep ends, and the threads
\* are scheduled.
SpecIsolation == InitSingle /\ [][Next]_vars /\ WF_vars(Next)

\* A failure is at hand: the listing request of the query has failed, or a detail
\* task of its batch has failed (request, parsing or save_legal_act).
FailureInQuery ==
    \/ pc = "search_failed"
    \/ \E i \in 1..Len(tasks) : tasks[i].st \in {"done_fail", "failed"}

\* C19: whatever fails in a query, the run goes on: the queries are taken one by
\* one in their order, none is skipped, and scrape_comprehensive_legal_acts
\* returns its count after the last one.
C19_IsolationAcrossQueries ==
    /\ [][q' # q => q' = q + 1]_vars
    /\ [](pc = "done" => q = RecentQuery /\ scraped_count \in Nat)
    /\ \A k \in 1..NumSearchQueries : (q = k /\ FailureInQuery) ~> (q = k + 1)
    /\ FailureInQuery ~> (pc = "done")

\* C19 witness: a failure is at hand in the first query of the second strategy,
\* and nothing is stored yet.
C19_Witness ==
    /\ q = NumDocumentTypes + 1
    /\ FailureInQuery
    /\ legal_acts = EmptyBag

\* C20: no query, of whichever strategy, submits more than floor(max_acts / 4)
\* stubs to the worker pool or saves more than floor(max_acts / 4) documents.
C20_PerQueryBudget ==
    /\ Len(tasks) <= max_acts \div NumStrategies
    /\ saved_count <= max_acts \div NumStrategies

\* C20 witness: the recent feed has submitted floor(max_acts / 4) = 2 stubs and
\* both documents are saved.
C20_Witness ==
    /\ q = RecentQuery
    /\ max_acts \div NumStrategies = 2
    /\ Len(tasks) = 2
    /\ saved_count = 2

\* The same run without an assumption on scheduling.
SpecSingle == InitSingle /\ [][Next]_vars

\* C21 (as claimed): started on an empty store with an empty registry, the count
\* scrape_comprehensive_legal_acts returns is the number of records the run has
\* added to the store.
C21_ReturnedCount ==
    pc = "done" => scraped_count = get_legal_act_count(legal_acts)

\* A worker takes task i from the queue in this step.
TaskStartStep(i) ==
    /\ i \in 1..Len(tasks)
    /\ Len(tasks') = Len(tasks)
    /\ tasks[i].st = "queued"
    /\ tasks'[i].st # "queued"

\* C22 (as claimed): after the interruption of a run with detail tasks in flight,
\* the executing tasks are left to end, no task that was still queued is started
\* or waited for, and the stats the handler prints are those of the store.
C22_DrainOnInterruption ==
    [][/\ pc = "draining" =>
              /\ \A i \in 1..Len(tasks) : ~TaskStartStep(i)
              /\ \A i \in 1..Len(tasks) :
                    tasks[i].st \in {"passed", "sleeping"} =>
                        tasks'[i].st \in {"passed", "sleeping", "done_ok", "done_fail"}
       /\ (pc = "draining" /\ pc' = "interrupted") =>
              /\ Running = {}
              /\ partial_stats'.total_acts_in_db = get_legal_act_count(legal_acts')]_vars

\* A listing page of the current query arrives and adds no stub to acts: it has
\* no result item, or none with an identifier outside the registry.
PageWithoutNewStubs ==
    /\ pc = "search"
    /\ ListingRequestStep
    /\ pc' # "search_failed"
    /\ acts' = acts

RegistryAccessors ==
    {"_perform_search", "_scrape_recent_legislation", "_get_detailed_act_info",
     "_process_and_save_acts", "get_scraping_stats"}

\* The accessors whose access is enclosed in `with self.lock:`: the membership
\* check of a worker and the insertion after a save.  Lines 386 and 292 test
\* membership, and line 677 reads the size, outside of any such block.
HoldsLock == {"_get_detailed_act_info", "_process_and_save_acts"}

\* The function f touches the registry in this step.
RegistryAccess(f) ==
    CASE f = "_perform_search" ->
            pc = "search" /\ ListingRequestStep /\ acts' # acts
      [] f = "_scrape_recent_legislation" ->
            pc = "recent" /\ ListingRequestStep /\ tasks' # <<>>
      [] f = "_get_detailed_act_info" ->
            \E i \in 1..Len(tasks) : TaskStartStep(i) /\ tasks[i].celex_number # NoCelex
      [] f = "_process_and_save_acts" ->
            processed_celexes' # processed_celexes
      [] f = "get_scraping_stats" ->
            pc # "interrupted" /\ pc' = "interrupted"

\* C24 (as claimed): every access to the registry during a run, those of the
\* paginator, of the recent-listing strategy and of get_scraping_stats included,
\* is made while holding the registry lock.
C24_LockDiscipline ==
    [][\A f \in RegistryAccessors : RegistryAccess(f) => f \in HoldsLock]_vars

\* ------------------------------------------------- the layouts of a listing
\* _perform_search looks for result items with three selectors in turn
\* ('div.SearchResult', 'li.result', 'div.result-item'), and
\* _parse_search_result_comprehensive has five selectors for the title link and
\* four for each of document_type, date_document and summary.
NumResultSelectors == 3
NumTitleSelectors == 5
NumFieldSelectors == 4
\* At most MaxMatches selectors of a field match in an item.
MaxMatches == 2

\* What select_one returns for a title selector: no element (<<>>), or a link
\* with its text and the identifier _extract_celex_from_url finds in its href.
TitleLinks ==
    {<<[text |-> "a", href |-> 1]>>, <<[text |-> "b", href |-> 2]>>,
     <<[text |-> "a", href |-> NoCelex]>>}

\* The outcomes of the n selectors of a field, in their order, each `none` or one
\* of `found`, with at most MaxMatches of them matching.
Matches(n, found, none) ==
    {s \in [1..n -> found \cup {none}] :
        Cardinality({i \in 1..n : s[i] # none}) <= MaxMatches}

FieldNames == {"document_type", "date_document", "summary"}

\* A result item: the outcomes of the title selectors, and those of the selectors
\* of one of the other three fields (the remaining two match nothing).  The item
\* has no element for the celex selectors, and parsing it raises nothing.
LayoutItems ==
    [title : Matches(NumTitleSelectors, TitleLinks, <<>>),
     field : FieldNames,
     elems : Matches(NumFieldSelectors, Texts, Absent)]

\* `for selector in selectors: elem = select_one(selector); if elem: ... break`:
\* the outcome of the first selector that matches, `none` when none does.
RECURSIVE FirstMatch(_, _)
FirstMatch(s, none) ==
    IF s = <<>> THEN none
    ELSE IF Head(s) # none THEN Head(s)
    ELSE FirstMatch(Tail(s), none)

\* The act dict of _parse_search_result_comprehensive for an item, <<>> for None.
parse_search_result_fields(item) ==
    LET title_link == FirstMatch(item.title, <<>>)
        value == FirstMatch(item.elems, Absent)
        act == [title |-> IF title_link = <<>> THEN Absent ELSE title_link[1].text,
                celex_number |-> IF title_link = <<>> THEN NoCelex ELSE title_link[1].href,
                document_type |-> IF item.field = "document_type" THEN value ELSE Absent,
                date_document |-> IF item.field = "date_document" THEN value ELSE Absent,
                summary |-> IF item.field = "summary" THEN value ELSE Absent]
    IN IF act.celex_number # NoCelex THEN <<act>> ELSE <<>>

\* A listing page: for each of the three result selectors, the items find_all
\* returns.  FixturePage(k, item) holds the item under the k-th selector only.
FixturePage(k, item) ==
    [j \in 1..NumResultSelectors |-> IF j = k THEN <<item>> ELSE <<>>]

\* Only soup.find_all('div', class_='SearchResult'), without the alternatives.
find_result_items_primary(soup) == soup[1]

\* _perform_search: result_items of the first of the three selectors that finds
\* any.
find_result_items(soup) ==
    IF soup[1] # <<>> THEN soup[1]
    ELSE IF soup[2] # <<>> THEN soup[2]
    ELSE soup[3]

\* The stubs _perform_search gets from a page (the registry is empty).
RECURSIVE ParseItems(_)
ParseItems(items) ==
    IF items = <<>> THEN <<>>
    ELSE parse_search_result_fields(Head(items)) \o ParseItems(Tail(items))

InitLayout ==
    /\ pc = "fixtures"
    /\ arg \in LayoutItems
    /\ ret = <<>>
    /\ stats_only = FALSE
    /\ exit_code = NotExited
    /\ max_acts = 0
    /\ max_workers = 1
    /\ site = "any"
    /\ legal_acts = EmptyBag
    /\ processed_celexes = {}
    /\ q = 0
    /\ acts = <<>>
    /\ page = 1
    /\ pages_fetched = 0
    /\ tasks = <<>>
    /\ saved_count = 0
    /\ total_scraped = 0
    /\ scraped_count = 0
    /\ delayed = TRUE
    /\ interrupt = FALSE
    /\ after = 0
    /\ partial_stats = None
    /\ calls = <<>>

\* The item is listed on three pages, one per result selector, and the result
\* items of each page are looked up.
FindResultItems ==
    /\ pc = "fixtures"
    /\ ret' = [k \in 1..NumResultSelectors |-> find_result_items(FixturePage(k, arg))]
    /\ pc' = "found"
    /\ UNCHANGED <<run_vars, arg, stats_only, exit_code>>

\* The result items of each page are parsed.
ParseResultItems ==
    /\ pc = "found"
    /\ ret' = [k \in 1..NumResultSelectors |-> ParseItems(ret[k])]
    /\ pc' = "stubs"
    /\ UNCHANGED <<run_vars, arg, stats_only, exit_code>>

NextLayout == FindResultItems \/ ParseResultItems

SpecLayout == InitLayout /\ [][NextLayout]_vars

\* The value is the outcome of the first selector of s that matches, and `none`
\* when no selector matches.
IsFirstMatch(value, s, none) ==
    \/ /\ \A i \in 1..Len(s) : s[i] = none
       /\ value = none
    \/ \E i \in 1..Len(s) :
          /\ s[i] # none
          /\ \A j \in 1..(i - 1) : s[j] = none
          /\ value = s[i]

\* C25: each field of a stub comes from the first selector of its list that
\* matches and is absent when none matches, and an item listed in the primary
\* layout and in each of the two fallback layouts yields the same identifier and
\* the same title.
C25_LayoutFallback ==
    pc = "stubs" =>
        /\ \A k \in 1..NumResultSelectors :
              /\ Len(ret[k]) <= 1
              /\ (ret[k] = <<>>) <=>
                    \/ FirstMatch(arg.title, <<>>) = <<>>
                    \/ FirstMatch(arg.title, <<>>)[1].href = NoCelex
              /\ ret[k] # <<>> =>
                    /\ IsFirstMatch(<<[text |-> ret[k][1].title,
                                       href |-> ret[k][1].celex_number]>>,
                                    arg.title, <<>>)
                    /\ \A f \in FieldNames :
                          IF f = arg.field
                          THEN IsFirstMatch(ret[k][1][f], arg.elems, Absent)
                          ELSE ret[k][1][f] = Absent
        /\ \A k \in 2..NumResultSelectors :
              /\ Len(ret[k]) = Len(ret[1])
              /\ \A i \in 1..Len(ret[1]) :
                    /\ ret[k][i].celex_number = ret[1][i].celex_number
                    /\ ret[k][i].title = ret[1][i].title

\* C25 witness: the three pages were parsed to a stub each, for an item in which
\* two title selectors match links of different identifiers and titles, and in
\* which the first selector of the other field matches nothing while two later
\* ones match different texts.
C25_Witness ==
    /\ pc = "stubs"
    /\ \A k \in 1..NumResultSelectors : ret[k] # <<>>
    /\ \E i, j \in 1..NumTitleSelectors :
          /\ i < j
          /\ arg.title[i] # <<>>
          /\ arg.title[j] # <<>>
          /\ arg.title[i][1].href # arg.title[j][1].href
          /\ arg.title[i][1].text # arg.title[j][1].text
    /\ arg.elems[1] = Absent
    /\ \E i, j \in 2..NumFieldSelectors :
          /\ i < j
          /\ arg.elems[i] \in Texts
          /\ arg.elems[j] \in Texts
          /\ arg.elems[i] # arg.elems[j]

\* The main thread handles the result of task i in this step.
HandledAs(i, st) ==
    /\ i \in 1..Len(tasks)
    /\ Len(tasks') = Len(tasks)
    /\ tasks[i].st # st
    /\ tasks'[i].st = st

\* C26: an identifier enters the registry only in the step in which the upsert of
\* its document has returned, never in a step that handles a failed task; every
\* identifier in the registry has a record in the store, and the registry size of
\* a stats snapshot is at most its store count.
C26_RegisteredAfterPersisted ==
    /\ [](/\ processed_celexes \subseteq StoredCelexes(legal_acts)
          /\ get_scraping_stats.processed_celexes <= get_scraping_stats.total_acts_in_db)
    /\ [][/\ processed_celexes' # processed_celexes =>
                \E i \in 1..Len(tasks) :
                    /\ HandledAs(i, "saved")
                    /\ tasks[i].st = "done_ok"
                    /\ processed_celexes' = processed_celexes \cup {tasks[i].celex_number}
                    /\ tasks[i].celex_number \in StoredCelexes(legal_acts')
          /\ (\E i \in 1..Len(tasks) : HandledAs(i, "failed")) =>
                processed_celexes' = processed_celexes]_vars

\* C26 witness: one task of a batch failed after its detail fetch had succeeded
\* (the upsert raised) and its identifier is not in the registry, while another
\* task of the batch was saved and registered.
C26_Witness ==
    \E i, j \in 1..Len(tasks) :
        /\ tasks[i].st = "failed"
        /\ tasks[i].title # None
        /\ tasks[i].celex_number \notin processed_celexes
        /\ tasks[j].st = "saved"
        /\ tasks[j].celex_number \in processed_celexes

\* ------------------------------------------------- the order of persistence
\* _process_and_save_acts step by step: the futures are submitted one by one while
\* the workers already run, then as_completed is entered and its futures are
\* handled by the main thread.
MaxBatch == 3

\* The batches: stubs of distinct identifiers, in discovery order.
Batches == {[i \in 1..n |-> [celex_number |-> i]] : n \in 0..MaxBatch}

\* The orders in which the elements of S can be listed.
Orders(S) ==
    {s \in [1..Cardinality(S) -> S] : \A i, j \in 1..Cardinality(S) : i # j => s[i] # s[j]}

\* s without its k-th element.
Remove(s, k) == SubSeq(s, 1, k - 1) \o SubSeq(s, k + 1, Len(s))

InitOrder ==
    /\ pc = "submit"
    /\ arg \in Batches
    /\ ret = [first |-> {}, finished |-> <<>>, upserted |-> <<>>]
    /\ max_workers \in 1..MaxWorkers
    /\ processed_celexes \in {{}, {1}}
    /\ legal_acts = SetToBag({Row(i, "title", 1) : i \in processed_celexes})
    /\ stats_only = FALSE
    /\ exit_code = NotExited
    /\ max_acts = 0
    /\ site = "any"
    /\ q = 0
    /\ acts = <<>>
    /\ page = 1
    /\ pages_fetched = 0
    /\ tasks = <<>>
    /\ saved_count = 0
    /\ total_scraped = 0
    /\ scraped_count = 0
    /\ delayed = TRUE
    /\ interrupt = FALSE
    /\ after = 0
    /\ partial_stats = None
    /\ calls = <<>>

OrderFixed ==
    <<max_acts, max_workers, site, q, acts, page, pages_fetched, total_scraped,
      scraped_count, delayed, interrupt, after, partial_stats, arg, stats_only, exit_code>>

\* executor.submit(self._get_detailed_act_info, act) for the next stub of the dict
\* comprehension.
SubmitTask ==
    /\ pc = "submit"
    /\ Len(tasks) < Len(arg)
    /\ tasks' = Append(tasks, [celex_number |-> arg[Len(tasks) + 1].celex_number,
                               title |-> None, st |-> "queued"])
    /\ UNCHANGED <<OrderFixed, pc, ret, calls, legal_acts, processed_celexes, saved_count>>

\* as_completed is entered: the futures that are done by now are yielded first, in
\* the order of a set, and the waiter is installed for the others.
AsCompleted(order) ==
    /\ pc = "submit"
    /\ Len(tasks) = Len(arg)
    /\ order \in Orders(Completed)
    /\ ret' = [ret EXCEPT !.first = Completed, !.finished = order]
    /\ pc' = "as_completed"
    /\ UNCHANGED <<OrderFixed, tasks, calls, legal_acts, processed_celexes, saved_count>>

\* The future of task i becomes done: `calls` keeps the order of completion, and
\* the waiter of as_completed, once installed, queues the future.
FutureDone(i) ==
    /\ calls' = Append(calls, i)
    /\ ret' = IF pc = "as_completed"
              THEN [ret EXCEPT !.finished = Append(@, i)]
              ELSE ret

\* A worker takes the next queued task and runs _get_detailed_act_info up to its
\* request; the task returns None at once when its identifier is in the registry.
WorkerStart(i) ==
    /\ pc \in {"submit", "as_completed"}
    /\ i \in 1..Len(tasks)
    /\ tasks[i].st = "queued"
    /\ \A j \in 1..(i - 1) : tasks[j].st # "queued"
    /\ WorkerAvailable
    /\ IF AlreadyProcessed(tasks[i].celex_number)
       THEN /\ tasks' = [tasks EXCEPT ![i].st = "done_skip"]
            /\ FutureDone(i)
       ELSE /\ tasks' = [tasks EXCEPT ![i].st = "passed"]
            /\ UNCHANGED <<calls, ret>>
    /\ UNCHANGED <<OrderFixed, pc, legal_acts, processed_celexes, saved_count>>

\* The worker of task i gets the detail page, sleeps and returns the document
\* (ok), or an exception makes it return None.
WorkerEnd(i, ok) ==
    /\ pc \in {"submit", "as_completed"}
    /\ i \in 1..Len(tasks)
    /\ tasks[i].st = "passed"
    /\ tasks' = IF ok THEN [tasks EXCEPT ![i].st = "done_ok", ![i].title = "title"]
                ELSE [tasks EXCEPT ![i].st = "done_fail"]
    /\ FutureDone(i)
    /\ UNCHANGED <<OrderFixed, pc, legal_acts, processed_celexes, saved_count>>

\* The waiter hands out the future that finished last.
NextYieldedLast(finished) == Len(finished)

\* as_completed yields the futures it holds first in, first out.
NextYielded(finished) == 1

\* The main thread handles the future as_completed yields.
YieldFuture(db_ok) ==
    /\ pc = "as_completed"
    /\ ret.finished # <<>>
    /\ LET k == NextYielded(ret.finished)
           i == ret.finished[k]
       IN IF tasks[i].st = "done_ok" /\ ~SaveRaises(DocOf(tasks[i])) /\ db_ok
          THEN /\ legal_acts' = save_legal_act(legal_acts, DocOf(tasks[i]))
               /\ processed_celexes' = processed_celexes \cup {tasks[i].celex_number}
               /\ saved_count' = saved_count + 1
               /\ tasks' = [tasks EXCEPT ![i].st = "saved"]
               /\ ret' = [ret EXCEPT !.finished = Remove(@, k), !.upserted = Append(@, i)]
          ELSE /\ tasks' = [tasks EXCEPT ![i].st =
                               IF tasks[i].st = "done_skip" THEN "skipped" ELSE "failed"]
               /\ ret' = [ret EXCEPT !.finished = Remove(@, k)]
               /\ UNCHANGED <<legal_acts, processed_celexes, saved_count>>
    /\ UNCHANGED <<OrderFixed, pc, calls>>

\* Every future was yielded: the `with` block ends, `return saved_count`.
ReturnSavedCount ==
    /\ pc = "as_completed"
    /\ BatchDone
    /\ pc' = "returned"
    /\ UNCHANGED <<OrderFixed, tasks, ret, calls, legal_acts, processed_celexes, saved_count>>

NextOrder ==
    \/ SubmitTask
    \/ \E order \in Orders(Completed) : AsCompleted(order)
    \/ \E i \in 1..Len(tasks) : WorkerStart(i)
    \/ \E i \in 1..Len(tasks), ok \in BOOLEAN : WorkerEnd(i, ok)
    \/ \E db_ok \in BOOLEAN : YieldFuture(db_ok)
    \/ ReturnSavedCount

SpecOrder == InitOrder /\ [][NextOrder]_vars

\* x comes before y in s.
Before(s, x, y) ==
    \E k, l \in 1..Len(s) : k < l /\ s[k] = x /\ s[l] = y

Upserted == {ret.upserted[k] : k \in 1..Len(ret.upserted)}

\* Every write to the store, the registry and the counter is one upsert of the
\* main thread for a task that has completed, and a step of a worker writes none
\* of them.
WritesByMainThread ==
    /\ (\/ legal_acts' # legal_acts
        \/ processed_celexes' # processed_celexes
        \/ saved_count' # saved_count) =>
            /\ pc = "as_completed"
            /\ saved_count' = saved_count + 1
            /\ \E i \in 1..Len(tasks) :
                  /\ HandledAs(i, "saved")
                  /\ tasks[i].st = "done_ok"
                  /\ \A j \in 1..Len(tasks) : j # i => tasks'[j] = tasks[j]
                  /\ ret'.upserted = Append(ret.upserted, i)
                  /\ processed_celexes' = processed_celexes \cup {tasks[i].celex_number}
    /\ (/\ Len(tasks') = Len(tasks)
        /\ \E i \in 1..Len(tasks) :
              tasks[i].st \in {"queued", "passed"} /\ tasks'[i].st # tasks[i].st) =>
            UNCHANGED <<legal_acts, processed_celexes, saved_count>>

\* C27 (as claimed): documents are upserted in the order in which their detail
\* tasks complete, and every upsert, registry insertion and increment of the
\* saved count is made by the main thread, one at a time.
C27_CompletionOrder ==
    /\ [](\A i, j \in Upserted : Before(ret.upserted, i, j) => Before(calls, i, j))
    /\ [][WritesByMainThread]_vars

\* C27 (amended): the same, with the order of completion kept only among the
\* tasks that complete after as_completed was entered; those that were done
\* before are upserted first, in no particular order.
C27_CompletionOrderAfterEntry ==
    /\ [](\A i, j \in Upserted :
            Before(ret.upserted, i, j) =>
                \/ i \in ret.first
                \/ j \notin ret.first /\ Before(calls, i, j))
    /\ [][WritesByMainThread]_vars

\* C27 witness: two tasks completed after as_completed was entered, the second
\* discovered first, and the documents were upserted in that order.
C27_Witness ==
    /\ ret.first = {}
    /\ Len(calls) >= 2
    /\ calls[1] = 2
    /\ calls[2] = 1
    /\ ret.upserted = <<2, 1>>

\* The query is being paginated.
Paginating == pc \in {"search", "search_return", "search_failed"}

\* C28: the listing requests of a query are all issued before its detail
\* requests, when no task of an earlier query is left; the registry and the store
\* do not change while the query is paginated; a stub is appended for every
\* listed identifier that is not in the registry, so the batch submitted to the
\* pool has one task per accumulated stub, repeated identifiers included.
C28_PhasesDoNotOverlap ==
    [][/\ ListingRequestStep => tasks = <<>>
       /\ (\E i \in 1..Len(tasks) : DetailRequestStep(i)) =>
              /\ pc = "pool"
              /\ pc' = "pool"
              /\ ~ListingRequestStep
       /\ pc = "pool" => q' \in {q, q + 1}
       /\ (pc = "pool" /\ pc' # "pool") => BatchHandled
       /\ Paginating =>
              /\ UNCHANGED <<legal_acts, processed_celexes, q>>
              /\ pc' = "pool" \/ Paginating'
              /\ \A k \in (Len(acts) + 1)..Len(acts') :
                    acts'[k].celex_number \notin processed_celexes
              /\ pc' = "pool" =>
                    /\ Len(tasks') = Min(Len(acts), Budget)
                    /\ \A k \in 1..Len(tasks') :
                          /\ tasks'[k].celex_number = acts[k].celex_number
                          /\ tasks'[k].st = "queued"]_vars

\* C28 witness: the batch of a query holds two stubs of the same identifier, and
\* the detail request of the first was issued while the second waits.
C28_Witness ==
    /\ pc = "pool"
    /\ Len(tasks) = 2
    /\ tasks[1].celex_number = tasks[2].celex_number
    /\ 1 \in Requested
    /\ tasks[2].st = "queued"

\* The detail fetch of task i succeeded and found no title, in the stub or on the
\* page.
Untitled(i) == tasks[i].st = "done_ok" /\ tasks[i].title = None

\* C29: the main thread's handling of a fetched document without title stores
\* nothing, counts nothing and adds nothing to the registry; the other tasks of
\* the batch are left as they were; and as the identifier is not in the registry,
\* a later task for it goes on to its detail request.
C29_UntitledNeverStored ==
    /\ [](\A r \in BagToSet(legal_acts) : r.title # None)
    /\ [][/\ \A i \in 1..Len(tasks) :
                (Untitled(i) /\ Len(tasks') = Len(tasks) /\ tasks'[i] # tasks[i]) =>
                    /\ tasks'[i].st = "failed"
                    /\ UNCHANGED <<legal_acts, processed_celexes, saved_count>>
                    /\ \A j \in 1..Len(tasks) : j # i => tasks'[j] = tasks[j]
          /\ \A k \in 1..Len(tasks) :
                (TaskStartStep(k) /\ tasks[k].celex_number \notin processed_celexes
                                  /\ tasks[k].celex_number # NoCelex) =>
                    tasks'[k].st = "passed"]_vars

\* C29 witness: the detail fetch of the first task of a batch returned a document
\* without title, which the main thread is about to hand to the store, while a
\* second task for the same identifier has fetched a titled document and sleeps;
\* nothing is stored or registered.
C29_Witness ==
    /\ Len(tasks) = 2
    /\ Untitled(1)
    /\ tasks[2].celex_number = tasks[1].celex_number
    /\ tasks[2].st = "sleeping"
    /\ tasks[2].title # None
    /\ legal_acts = EmptyBag
    /\ processed_celexes = {}
    /\ saved_count = 0

\* What C30 says besides the bound on listing pages: the call returns; a page
\* that does not end the pagination adds a stub; a query starts at most
\* floor(max_acts / 4) detail tasks; the queries are the 41 of the four
\* strategies, taken one after the other.
TerminatesWithinBudget ==
    /\ <>(pc = "done")
    /\ [](Len(tasks) <= Budget /\ q <= NumSearchQueries + 1)
    /\ [](pc = "done" => q = NumSearchQueries + 1)
    /\ [][/\ q' \in {q, q + 1}
          /\ (pc = "search" /\ pc' = "search" /\ ListingRequestStep) =>
                Len(acts') > Len(acts)]_vars

\* C30 (as claimed): with every request and every upsert returning or failing in
\* the end, each call of scrape_comprehensive_legal_acts returns, and each of its
\* queries fetches at most floor(max_acts / 4) listing pages.
C30_Termination ==
    /\ TerminatesWithinBudget
    /\ [](pages_fetched <= Budget)

\* C30 (amended): the same, with the bound on listing pages for the search
\* queries; the recent-listing query fetches one page whatever the budget.
C30_TerminationSearchPages ==
    /\ TerminatesWithinBudget
    /\ [](pages_fetched <= IF q = NumSearchQueries + 1 THEN 1 ELSE Budget)

\* C30 witness: a run has returned after its 41 queries, the last of which
\* fetched the recent-listing page, with a record in the store.
C30_Witness ==
    /\ pc = "done"
    /\ q = NumSearchQueries + 1
    /\ pages_fetched = 1
    /\ legal_acts # EmptyBag
====
